---- MODULE Spec2Model ----
(***************************************************************************)
(* Kanban board (script.js): StorageManager, TaskManager, UIRenderer,      *)
(* DragDropManager, FormHandler and KanbanApp as one state machine.        *)
(*                                                                         *)
(* A string the code trims or measures (title, description) is held as its *)
(* runs: <<c, n>> stands for n copies of the character c, so <<"a", 100>>  *)
(* alone is a title of 100 characters.  A task id is the reading of the    *)
(* clock that generateId takes; the clock advances with every task         *)
(* created, so ids are unique.  localStorage holds, under the one key,     *)
(* either nothing or a text; a text is modelled by what JSON.parse makes   *)
(* of it.                                                                  *)
(***************************************************************************)
EXTENDS Integers, Sequences, FiniteSets, TLC

\* ---------------------------------------------------------------- bounds
MaxClock == 2        \* readings of the clock (tasks ever created)
MaxFaults == 1       \* storage faults injected in one run
MaxListeners == 4    \* listeners of one kind registered on one element

\* ------------------------------------------------------- program constants
TitleMax == 100

NULL == 0

\* ------------------------------------------------------------ text helpers
\* n copies of the character c
Rep(c, n) == << <<c, n>> >>

IsSpace(run) == run[1] = " "

\* String.prototype.length
RECURSIVE Length(_)
Length(s) == IF s = <<>> THEN 0 ELSE Head(s)[2] + Length(Tail(s))

RECURSIVE TrimStart(_)
TrimStart(s) == IF s = <<>> \/ ~IsSpace(Head(s)) THEN s ELSE TrimStart(Tail(s))

RECURSIVE TrimEnd(_)
TrimEnd(s) ==
  IF s = <<>> \/ ~IsSpace(s[Len(s)]) THEN s ELSE TrimEnd(SubSeq(s, 1, Len(s) - 1))

\* String.prototype.trim: drop leading and trailing white space
Trim(s) == TrimEnd(TrimStart(s))

\* ------------------------------------------------------------ the statuses
\* the three lists renderAllTasks fills, in its order
RenderedStatuses == <<"todo", "inprogress", "done">>

RenderedSet == {RenderedStatuses[i] : i \in 1..Len(RenderedStatuses)}

\* the drop zones: every .task-list sits in the .column of its status
DropZones == RenderedSet

\* status strings a direct caller of updateTaskStatus may pass
StatusValues == {"todo", "done", "archived"}

\* -------------------------------------------------------------- JSON text
\* A JavaScript value the program holds in TaskManager.tasks:
\*   type "array" with its items, or a value that is no array.
JsArray(items) == [type |-> "array", items |-> items]

JsOther(t) == [type |-> t, items |-> <<>>]

\* A localStorage entry: absent, or a text of some kind.
Absent == [kind |-> "absent", items |-> <<>>]

EmptyText == [kind |-> "empty", items |-> <<>>]

Malformed == [kind |-> "malformed", items |-> <<>>]

NonArrayKinds == {"object", "number", "string", "null"}

\* one task record as JSON text: its fields in the order the literal gives
TaskToText(t) == <<t.id, t.title, t.description, t.status, t.createdAt>>

TextToTask(x) ==
  [id |-> x[1], title |-> x[2], description |-> x[3], status |-> x[4],
   createdAt |-> x[5]]

\* JSON.stringify of the value held in TaskManager.tasks
JSONStringify(v) ==
  IF v.type = "array"
  THEN [kind |-> "array", items |-> [i \in DOMAIN v.items |-> TaskToText(v.items[i])]]
  ELSE [kind |-> v.type, items |-> <<>>]

\* JSON.parse of a non-empty text; a malformed text makes it throw
JSONParse(text) ==
  IF text.kind = "malformed" THEN [threw |-> TRUE, value |-> JsArray(<<>>)]
  ELSE IF text.kind = "array"
  THEN [threw |-> FALSE,
        value |-> JsArray([i \in DOMAIN text.items |-> TextToTask(text.items[i])])]
  ELSE [threw |-> FALSE, value |-> JsOther(text.kind)]

\* ---------------------------------------------------------- StorageManager
\* saveTasks: stringify and setItem inside try/catch; fault = setItem throws
SaveTasks(store, value, fault) ==
  IF fault
  THEN [storage |-> store, ok |-> FALSE, threw |-> FALSE]
  ELSE [storage |-> JSONStringify(value), ok |-> TRUE, threw |-> FALSE]

\* loadTasks with the catch left out
LoadTasksNoCatch(store, fault) ==
  IF fault \/ store.kind = "malformed" THEN [value |-> JsArray(<<>>), threw |-> TRUE]
  ELSE IF store.kind \in {"absent", "empty"} THEN [value |-> JsArray(<<>>), threw |-> FALSE]
  ELSE [value |-> JSONParse(store).value, threw |-> FALSE]

\* loadTasks: getItem, then parse unless the text is falsy; fault = getItem throws
LoadTasks(store, fault) ==
  IF fault THEN [value |-> JsArray(<<>>), threw |-> FALSE]
  ELSE IF store.kind \in {"absent", "empty"} THEN [value |-> JsArray(<<>>), threw |-> FALSE]
  ELSE LET parsed == JSONParse(store)
       IN  IF parsed.threw THEN [value |-> JsArray(<<>>), threw |-> FALSE]
           ELSE [value |-> parsed.value, threw |-> FALSE]

\* clearTasks: removeItem inside try/catch; fault = removeItem throws
ClearTasks(store, fault) ==
  IF fault
  THEN [storage |-> store, ok |-> FALSE, threw |-> FALSE]
  ELSE [storage |-> Absent, ok |-> TRUE, threw |-> FALSE]

\* ------------------------------------------------------------- TaskManager
\* The part of the state a TaskManager call reads and writes:
\*   tasks, storage, threw (an exception left the call), writes (setItem
\*   calls made), wrote (setItem calls that stored their text).
Mem(t, st) == [tasks |-> t, storage |-> st, threw |-> FALSE, writes |-> 0, wrote |-> 0]

\* TaskManager.saveTasks
TMSaveTasks(m, fault) ==
  LET saved == SaveTasks(m.storage, m.tasks, fault)
  IN  [m EXCEPT !.storage = saved.storage,
                !.threw = saved.threw,
                !.writes = @ + 1,
                !.wrote = @ + (IF saved.ok THEN 1 ELSE 0)]

\* the record createTask builds
NewTask(title, description, now) ==
  [id |-> now, title |-> Trim(title), description |-> Trim(description),
   status |-> "todo", createdAt |-> now]

\* createTask: push needs an array
CreateTask(m, title, description, now, fault) ==
  IF m.tasks.type # "array" THEN [m EXCEPT !.threw = TRUE]
  ELSE TMSaveTasks(
         [m EXCEPT !.tasks = JsArray(Append(m.tasks.items, NewTask(title, description, now)))],
         fault)

\* Array.prototype.find: index of the first task with this id, 0 if none
FindIndex(items, taskId) ==
  IF \E i \in DOMAIN items : items[i].id = taskId
  THEN CHOOSE i \in DOMAIN items :
         /\ items[i].id = taskId
         /\ \A j \in DOMAIN items : items[j].id = taskId => i <= j
  ELSE 0

\* updateTaskStatus with saveTasks moved out of the if
UpdateTaskStatusAlwaysSave(m, taskId, newStatus, fault) ==
  LET i == FindIndex(m.tasks.items, taskId)
  IN  TMSaveTasks(
        [m EXCEPT !.tasks = JsArray([j \in DOMAIN m.tasks.items |->
           IF j = i THEN [m.tasks.items[j] EXCEPT !.status = newStatus]
           ELSE m.tasks.items[j]])],
        fault)

\* updateTaskStatus setting the status of every task
UpdateTaskStatusAll(m, taskId, newStatus, fault) ==
  IF FindIndex(m.tasks.items, taskId) = 0 THEN m
  ELSE TMSaveTasks(
         [m EXCEPT !.tasks = JsArray([j \in DOMAIN m.tasks.items |->
            [m.tasks.items[j] EXCEPT !.status = newStatus]])],
         fault)

\* updateTaskStatus: find needs an array; saves only when the task is found
UpdateTaskStatus(m, taskId, newStatus, fault) ==
  IF m.tasks.type # "array" THEN [m EXCEPT !.threw = TRUE]
  ELSE LET i == FindIndex(m.tasks.items, taskId)
       IN  IF i = 0 THEN m
           ELSE TMSaveTasks(
                  [m EXCEPT !.tasks = JsArray([m.tasks.items EXCEPT ![i].status = newStatus])],
                  fault)

\* deleteTask that forgets saveTasks
DeleteTaskNoSave(m, taskId, fault) ==
  [m EXCEPT !.tasks = JsArray(SelectSeq(m.tasks.items, LAMBDA t : t.id # taskId))]

\* deleteTask by splice(findIndex(...), 1): an id not found removes the last task
DeleteTaskSplice(m, taskId, fault) ==
  LET i == FindIndex(m.tasks.items, taskId)
      n == Len(m.tasks.items)
      gone == IF i = 0 THEN n ELSE i
  IN  TMSaveTasks(
        [m EXCEPT !.tasks = JsArray(SubSeq(m.tasks.items, 1, gone - 1)
                                    \o SubSeq(m.tasks.items, gone + 1, n))],
        fault)

\* deleteTask: filter needs an array; always saves
DeleteTask(m, taskId, fault) ==
  IF m.tasks.type # "array" THEN [m EXCEPT !.threw = TRUE]
  ELSE TMSaveTasks(
         [m EXCEPT !.tasks = JsArray(SelectSeq(m.tasks.items, LAMBDA t : t.id # taskId))],
         fault)

\* getTasksByStatus with the comparison negated
GetTasksByStatusNot(items, status) == SelectSeq(items, LAMBDA t : t.status # status)

\* getTasksByStatus on an array
GetTasksByStatus(items, status) == SelectSeq(items, LAMBDA t : t.status = status)

\* -------------------------------------------------------------- UIRenderer
\* the cards of one list, each card named by the id of its task
RenderTasksInColumn(items, status) ==
  LET shown == GetTasksByStatus(items, status)
  IN  [i \in DOMAIN shown |-> shown[i].id]

EmptyColumns == [s \in RenderedSet |-> <<>>]

\* renderAllTasks: the three lists rebuilt; on a value that is no array
\* getTasksByStatus throws before the first list is cleared
RenderAllTasks(t, cols) ==
  IF t.type # "array" THEN [columns |-> cols, threw |-> TRUE]
  ELSE [columns |-> [s \in RenderedSet |-> RenderTasksInColumn(t.items, s)],
        threw |-> FALSE]

\* ids of the cards now in the document
Cards(cols) == UNION {{cols[s][i] : i \in DOMAIN cols[s]} : s \in RenderedSet}

\* ------------------------------------------------------------------- state
VARIABLES
  phase,           \* "unloaded": no page; "running": DOMContentLoaded has fired
  tasks,           \* TaskManager.tasks
  storage,         \* localStorage under STORAGE_KEY
  columns,         \* the cards in #todoList, #inprogressList, #doneList
  draggedElement,  \* DragDropManager.draggedElement: NULL or the card's task id
  gesture,         \* the drag in progress, if any
  formListeners,   \* submit listeners on #taskForm
  dropListeners,   \* drop listeners on each .task-list
  boardListeners,  \* dragstart (and dragend) listeners on #kanbanBoard
  clock,           \* last reading of the clock handed out as an id
  faults,          \* storage faults so far
  uncaught,        \* the last handler ended in an uncaught exception
  last             \* the last event: what it was, its arguments, its setItem calls

vars == <<phase, tasks, storage, columns, draggedElement, gesture, formListeners,
          dropListeners, boardListeners, clock, faults, uncaught, last>>

\* status of the task with this id, "" if there is none
StatusOf(t, taskId) ==
  IF t.type = "array" /\ FindIndex(t.items, taskId) # 0
  THEN t.items[FindIndex(t.items, taskId)].status
  ELSE ""

\* The record of an event: the handler or call (op), its arguments (id,
\* status, title), whether it went ahead (accepted: the form was valid, the
\* prompt confirmed, a card was being dragged), for a drop the status the
\* dragged task had before (from), the setItem calls made and stored
\* (writes, wrote), the getItem or removeItem calls that threw (failed), and
\* for deleteTask whether the event before it was deleteTask of the same id
\* (again).
Event(op, id, status, accepted, title, m, failed) ==
  [op |-> op, id |-> id, status |-> status, accepted |-> accepted, title |-> title,
   from |-> (IF op = "drop" THEN StatusOf(tasks, id) ELSE ""),
   writes |-> m.writes, wrote |-> m.wrote, failed |-> failed,
   again |-> (op = "deleteTask" /\ last.op = op /\ last.id = id)]

\* ------------------------------------------------------------ initial state
\* what an earlier session may have left under the key
StoredTask(id, status) ==
  [id |-> id, title |-> Rep("a", TitleMax), description |-> <<>>, status |-> status,
   createdAt |-> id]

StoredCollections == { <<>>, <<StoredTask(1, "done")>> }

ValidStored == {JSONStringify(JsArray(c)) : c \in StoredCollections}

\* texts that parse to something that is no array
NonArrayStored == {[kind |-> k, items |-> <<>>] : k \in NonArrayKinds}

InitWith(stored) ==
  /\ phase = "unloaded"
  /\ tasks = JsArray(<<>>)
  /\ storage \in stored
  /\ columns = EmptyColumns
  /\ draggedElement = NULL
  /\ gesture = "none"
  /\ formListeners = 0
  /\ dropListeners = 0
  /\ boardListeners = 0
  /\ clock = 1
  /\ faults = 0
  /\ uncaught = FALSE
  /\ last = [op |-> "none", id |-> NULL, status |-> "", accepted |-> FALSE, title |-> <<>>,
             from |-> "", writes |-> 0, wrote |-> 0, failed |-> 0, again |-> FALSE]

Init == InitWith({Absent, EmptyText, Malformed} \cup ValidStored)

InitAny == InitWith({Absent, EmptyText, Malformed} \cup ValidStored \cup NonArrayStored)

\* faults a step may inject
FaultChoice == IF faults < MaxFaults THEN {FALSE, TRUE} ELSE {FALSE}

Count(f) == IF f THEN 1 ELSE 0

\* --------------------------------------------------------------- KanbanApp
\* DragDropManager.init: one more drop listener on every list, one more
\* dragstart and dragend listener on the board
DragDropInit(n) == n + 1

\* DOMContentLoaded: KanbanApp.init
Startup(fault) ==
  /\ phase = "unloaded"
  /\ LET loaded == LoadTasks(storage, fault)
         shown == RenderAllTasks(loaded.value, columns)
         crashed == loaded.threw \/ shown.threw
     IN  /\ tasks' = (IF loaded.threw THEN tasks ELSE loaded.value)
         /\ formListeners' = (IF loaded.threw THEN formListeners ELSE formListeners + 1)
         /\ columns' = (IF loaded.threw THEN columns ELSE shown.columns)
         /\ dropListeners' = (IF crashed THEN dropListeners ELSE DragDropInit(dropListeners))
         /\ boardListeners' = (IF crashed THEN boardListeners ELSE DragDropInit(boardListeners))
         /\ uncaught' = crashed
         /\ last' = Event("startup", NULL, "", TRUE, <<>>, Mem(tasks, storage), Count(fault))
  /\ phase' = "running"
  /\ faults' = faults + Count(fault)
  /\ UNCHANGED <<storage, draggedElement, gesture, clock>>

\* beforeunload: TaskManager.saveTasks, then the page and its objects are gone
Unload(fault) ==
  /\ phase = "running"
  /\ gesture = "none"
  /\ LET m == TMSaveTasks(Mem(tasks, storage), fault)
     IN  /\ storage' = m.storage
         /\ uncaught' = m.threw
         /\ last' = Event("unload", NULL, "", TRUE, <<>>, m, 0)
  /\ phase' = "unloaded"
  /\ tasks' = JsArray(<<>>)
  /\ columns' = EmptyColumns
  /\ draggedElement' = NULL
  /\ formListeners' = 0
  /\ dropListeners' = 0
  /\ boardListeners' = 0
  /\ faults' = faults + Count(fault)
  /\ UNCHANGED <<gesture, clock>>

\* ------------------------------------------------------------- FormHandler
\* validateForm with >= for >
ValidateFormOffByOne(title) ==
  Length(Trim(title)) # 0 /\ ~(Length(Trim(title)) >= TitleMax)

\* validateForm: the alert is shown and false returned, or true
ValidateForm(title) ==
  IF Length(Trim(title)) = 0 THEN FALSE
  ELSE IF Length(Trim(title)) > TitleMax THEN FALSE
  ELSE TRUE

\* what the user may have typed into the form: <<title, description>>
FormInputs ==
  { << <<>>, Rep("d", 1) >>,
    << Rep(" ", 2), Rep("d", 1) >>,
    << Rep("a", TitleMax), Rep(" ", 1) >>,
    << Rep("a", TitleMax + 1), <<>> >>,
    << Rep(" ", 1) \o Rep("a", TitleMax + 1) \o Rep(" ", 1), <<>> >>,
    << Rep("a", TitleMax) \o Rep(" ", 1), <<>> >> }

\* submit on #taskForm: handleSubmit
Submit(title, description, fault) ==
  /\ phase = "running"
  /\ gesture = "none"
  /\ formListeners > 0
  /\ IF ~ValidateForm(title)
     THEN /\ fault = FALSE
          /\ uncaught' = FALSE
          /\ last' = Event("submit", NULL, "", FALSE, title, Mem(tasks, storage), 0)
          /\ UNCHANGED <<tasks, storage, columns, dropListeners, boardListeners, clock, faults>>
     ELSE /\ clock < MaxClock
          /\ dropListeners < MaxListeners
          /\ LET now == clock + 1
                 m == CreateTask(Mem(tasks, storage), title, description, now, fault)
                 shown == RenderAllTasks(m.tasks, columns)
                 crashed == m.threw \/ shown.threw
             IN  /\ m.threw => fault = FALSE
                 /\ tasks' = m.tasks
                 /\ storage' = m.storage
                 /\ columns' = (IF m.threw THEN columns ELSE shown.columns)
                 /\ dropListeners' = (IF crashed THEN dropListeners ELSE DragDropInit(dropListeners))
                 /\ boardListeners' = (IF crashed THEN boardListeners ELSE DragDropInit(boardListeners))
                 /\ uncaught' = crashed
                 /\ last' = Event("submit", now, "todo", TRUE, title, m, 0)
          /\ clock' = clock + 1
          /\ faults' = faults + Count(fault)
  /\ UNCHANGED <<phase, draggedElement, gesture, formListeners>>

\* the delete handler going ahead whatever confirm() returns
ConfirmIgnored(answer) == TRUE

\* if (confirm(...)): the handler goes ahead on OK only
Confirmed(answer) == answer

\* click on the delete button of the card of task taskId, and the answer
\* given to confirm()
DeleteClick(taskId, confirmed, fault) ==
  /\ phase = "running"
  /\ gesture = "none"
  /\ taskId \in Cards(columns)
  /\ IF ~Confirmed(confirmed)
     THEN /\ fault = FALSE
          /\ uncaught' = FALSE
          /\ last' = Event("delete", taskId, "", confirmed, <<>>, Mem(tasks, storage), 0)
          /\ UNCHANGED <<tasks, storage, columns, faults>>
     ELSE LET m == DeleteTask(Mem(tasks, storage), taskId, fault)
              shown == RenderAllTasks(m.tasks, columns)
          IN  /\ m.threw => fault = FALSE
              /\ tasks' = m.tasks
              /\ storage' = m.storage
              /\ columns' = (IF m.threw THEN columns ELSE shown.columns)
              /\ uncaught' = (m.threw \/ shown.threw)
              /\ last' = Event("delete", taskId, "", confirmed, <<>>, m, 0)
              /\ faults' = faults + Count(fault)
  /\ UNCHANGED <<phase, draggedElement, gesture, formListeners, dropListeners,
                 boardListeners, clock>>

\* --------------------------------------------------------- DragDropManager
\* getStatusFromDropZone with the middle column marked in-progress
GetStatusFromDropZoneHyphen(zone) == IF zone = "inprogress" THEN "in-progress" ELSE zone

\* getStatusFromDropZone: data-status of the .column around the list; the
\* column of #inprogressList carries the status it is rendered for
GetStatusFromDropZone(zone) == zone

\* What one dispatch of drop works on: the TaskManager part, the lists, the
\* listener counts and whether a render replaced the cards.
DropState(m, cols, dl, bl) ==
  [m |-> m, columns |-> cols, dropListeners |-> dl, boardListeners |-> bl,
   rendered |-> FALSE, threw |-> FALSE]

\* handleDrop, one listener's run
HandleDrop(d, dragged, zone, fault) ==
  IF dragged = NULL THEN d
  ELSE LET newStatus == GetStatusFromDropZone(zone)
       IN  IF newStatus = "" THEN d
           ELSE LET m == UpdateTaskStatus(d.m, dragged, newStatus, fault)
                    shown == RenderAllTasks(m.tasks, d.columns)
                IN  IF m.threw \/ shown.threw
                    THEN [d EXCEPT !.m = m, !.threw = TRUE]
                    ELSE [m |-> m, columns |-> shown.columns,
                          dropListeners |-> DragDropInit(d.dropListeners),
                          boardListeners |-> DragDropInit(d.boardListeners),
                          rendered |-> TRUE, threw |-> d.threw]

\* the drop event reaches the listeners registered when it was dispatched,
\* i..k, in turn; failing is the set of runs whose setItem throws
RECURSIVE DispatchDrop(_, _, _, _, _, _)
DispatchDrop(d, dragged, zone, i, k, failing) ==
  IF i > k THEN d
  ELSE DispatchDrop(HandleDrop(d, dragged, zone, i \in failing), dragged, zone,
                    i + 1, k, failing)

\* dragstart on the card of task taskId
DragStart(taskId) ==
  /\ phase = "running"
  /\ gesture = "none"
  /\ boardListeners > 0
  /\ taskId \in Cards(columns)
  /\ draggedElement' = taskId
  /\ gesture' = "dragging"
  /\ uncaught' = FALSE
  /\ last' = Event("dragstart", taskId, "", TRUE, <<>>, Mem(tasks, storage), 0)
  /\ UNCHANGED <<phase, tasks, storage, columns, formListeners, dropListeners,
                 boardListeners, clock, faults>>

\* a drag of something that is no task card (a file, a selection, a link):
\* the dragstart listener, if it runs at all, leaves draggedElement alone
DragStartOther ==
  /\ phase = "running"
  /\ gesture = "none"
  /\ dropListeners > 0
  /\ gesture' = "other"
  /\ uncaught' = FALSE
  /\ last' = Event("dragstart", NULL, "", FALSE, <<>>, Mem(tasks, storage), 0)
  /\ UNCHANGED <<phase, tasks, storage, columns, draggedElement, formListeners,
                 dropListeners, boardListeners, clock, faults>>

\* drop on the list of column zone
Drop(zone, failing) ==
  /\ phase = "running"
  /\ gesture \in {"dragging", "other"}
  /\ dropListeners > 0
  /\ draggedElement # NULL => 2 * dropListeners <= MaxListeners
  /\ failing \subseteq 1..dropListeners
  /\ faults + Cardinality(failing) <= MaxFaults
  /\ LET d == DispatchDrop(DropState(Mem(tasks, storage), columns, dropListeners,
                                     boardListeners),
                           draggedElement, zone, 1, dropListeners, failing)
     IN  /\ d.m.writes = 0 => failing = {}
         /\ tasks' = d.m.tasks
         /\ storage' = d.m.storage
         /\ columns' = d.columns
         /\ dropListeners' = d.dropListeners
         /\ boardListeners' = d.boardListeners
         /\ uncaught' = d.threw
         /\ gesture' = (IF gesture = "other" THEN "none"
                        ELSE IF d.rendered THEN "droppedDetached" ELSE "dropped")
         /\ last' = Event("drop", draggedElement, zone, gesture = "dragging", <<>>,
                          d.m, 0)
  /\ faults' = faults + Cardinality(failing)
  /\ UNCHANGED <<phase, draggedElement, formListeners, clock>>

\* dragend at the dragged card: it bubbles to the board unless the card has
\* been replaced by a render, and a drag of something else has no dragend here
DragEnd ==
  /\ phase = "running"
  /\ gesture \in {"dragging", "dropped", "droppedDetached", "other"}
  /\ draggedElement' =
       (IF gesture \in {"dragging", "dropped"} /\ boardListeners > 0
        THEN NULL ELSE draggedElement)
  /\ gesture' = "none"
  /\ uncaught' = FALSE
  /\ last' = Event("dragend", draggedElement, "", gesture \in {"dragging", "dropped"},
                   <<>>, Mem(tasks, storage), 0)
  /\ UNCHANGED <<phase, tasks, storage, columns, formListeners, dropListeners,
                 boardListeners, clock, faults>>

\* ------------------------------------------------- direct TaskManager calls
ApiTitles == { Rep("c", 1) \o Rep(" ", 1) }

ApiCreateTask(title, description, fault) ==
  /\ phase = "running"
  /\ gesture = "none"
  /\ clock < MaxClock
  /\ LET m == CreateTask(Mem(tasks, storage), title, description, clock + 1, fault)
     IN  /\ m.threw => fault = FALSE
         /\ tasks' = m.tasks
         /\ storage' = m.storage
         /\ uncaught' = m.threw
         /\ last' = Event("createTask", clock + 1, "todo", TRUE, title, m, 0)
  /\ clock' = clock + 1
  /\ faults' = faults + Count(fault)
  /\ UNCHANGED <<phase, columns, draggedElement, gesture, formListeners, dropListeners,
                 boardListeners>>

ApiUpdateTaskStatus(taskId, newStatus, fault) ==
  /\ phase = "running"
  /\ gesture = "none"
  /\ LET m == UpdateTaskStatus(Mem(tasks, storage), taskId, newStatus, fault)
     IN  /\ m.writes = 0 => fault = FALSE
         /\ tasks' = m.tasks
         /\ storage' = m.storage
         /\ uncaught' = m.threw
         /\ last' = Event("updateTaskStatus", taskId, newStatus, TRUE, <<>>, m, 0)
  /\ faults' = faults + Count(fault)
  /\ UNCHANGED <<phase, columns, draggedElement, gesture, formListeners, dropListeners,
                 boardListeners, clock>>

ApiDeleteTask(taskId, fault) ==
  /\ phase = "running"
  /\ gesture = "none"
  /\ LET m == DeleteTask(Mem(tasks, storage), taskId, fault)
     IN  /\ m.threw => fault = FALSE
         /\ tasks' = m.tasks
         /\ storage' = m.storage
         /\ uncaught' = m.threw
         /\ last' = Event("deleteTask", taskId, "", TRUE, <<>>, m, 0)
  /\ faults' = faults + Count(fault)
  /\ UNCHANGED <<phase, columns, draggedElement, gesture, formListeners, dropListeners,
                 boardListeners, clock>>

ApiClearTasks(fault) ==
  /\ phase = "running"
  /\ gesture = "none"
  /\ LET c == ClearTasks(storage, fault)
     IN  /\ storage' = c.storage
         /\ uncaught' = c.threw
         /\ last' = Event("clearTasks", NULL, "", TRUE, <<>>, Mem(tasks, storage), Count(fault))
  /\ faults' = faults + Count(fault)
  /\ UNCHANGED <<phase, tasks, columns, draggedElement, gesture, formListeners,
                 dropListeners, boardListeners, clock>>

\* ---------------------------------------------------------- specifications
TaskIds == 1..MaxClock

Lifecycle ==
  \/ \E fault \in FaultChoice : Startup(fault)
  \/ \E fault \in FaultChoice : Unload(fault)

\* what a user at the page can do
UserEvents ==
  \/ \E input \in FormInputs, fault \in FaultChoice : Submit(input[1], input[2], fault)
  \/ \E taskId \in TaskIds, confirmed \in BOOLEAN, fault \in FaultChoice :
       DeleteClick(taskId, confirmed, fault)
  \/ \E taskId \in TaskIds : DragStart(taskId)
  \/ DragStartOther
  \/ \E zone \in DropZones, failing \in SUBSET (1..MaxListeners) : Drop(zone, failing)
  \/ DragEnd

\* what code that calls TaskManager and StorageManager itself can do
Calls ==
  \/ \E title \in ApiTitles, fault \in FaultChoice : ApiCreateTask(title, <<>>, fault)
  \/ \E taskId \in TaskIds, newStatus \in StatusValues, fault \in FaultChoice :
       ApiUpdateTaskStatus(taskId, newStatus, fault)
  \/ \E taskId \in TaskIds, fault \in FaultChoice : ApiDeleteTask(taskId, fault)
  \/ \E fault \in FaultChoice : ApiClearTasks(fault)

NextUI == Lifecycle \/ UserEvents

NextCalls == Lifecycle \/ Calls

\* the page and its users, from a stored value the program wrote or none
SpecUI == Init /\ [][NextUI]_vars

\* callers of TaskManager and StorageManager, from such a stored value
Spec == Init /\ [][NextCalls]_vars

\* the same callers, from any stored value
SpecAny == InitAny /\ [][NextCalls]_vars

\* ------------------------------------------------------------- properties
Ids(t) == {t.items[i].id : i \in DOMAIN t.items}

Range(f) == {f[i] : i \in DOMAIN f}

\* the text holds the tasks of t: as many, in this order, field by field
StoredEquals(text, t) ==
  /\ text.kind = "array"
  /\ t.type = "array"
  /\ Len(text.items) = Len(t.items)
  /\ \A i \in DOMAIN t.items :
       text.items[i] = <<t.items[i].id, t.items[i].title, t.items[i].description,
                         t.items[i].status, t.items[i].createdAt>>

\* the step is a TaskManager call that changes the collection
Mutates ==
  \/ last'.op \in {"createTask", "deleteTask"}
  \/ last'.op = "updateTaskStatus" /\ last'.id \in Ids(tasks)

\* the collection after the step shows the call's change
MutationKept ==
  /\ last'.op = "createTask" =>
       /\ Len(tasks'.items) = Len(tasks.items) + 1
       /\ tasks'.items[Len(tasks'.items)].id = last'.id
  /\ last'.op = "updateTaskStatus" => StatusOf(tasks', last'.id) = last'.status
  /\ last'.op = "deleteTask" => last'.id \notin Ids(tasks')

\* C1: a createTask, a deleteTask or an updateTaskStatus that finds its task
\* makes one storage write; if the write succeeds the stored text holds
\* exactly the in-memory collection, and if it fails storage keeps its value
\* while the collection keeps the change.
C1_PersistedAfterMutation ==
  [][Mutates =>
       /\ last'.writes = 1
       /\ last'.wrote = 1 => StoredEquals(storage', tasks')
       /\ last'.wrote = 0 => storage' = storage /\ MutationKept]_vars

C1_Witness ==
  /\ last.op = "deleteTask"
  /\ last.writes = 1
  /\ last.wrote = 0
  /\ tasks = JsArray(<<>>)
  /\ storage.kind = "array"
  /\ Len(storage.items) = 1

\* C2: for every status s, getTasksByStatus(s) holds the tasks of the
\* collection with status s and no others, each once, oldest first.
C2_TasksByStatus ==
  (phase = "running" /\ tasks.type = "array") =>
    \A s \in StatusValues \cup RenderedSet :
      LET r == GetTasksByStatus(tasks.items, s)
      IN  /\ \A i \in DOMAIN r : r[i].status = s /\ r[i] \in Range(tasks.items)
          /\ \A t \in Range(tasks.items) :
               t.status = s => Cardinality({i \in DOMAIN r : r[i] = t}) = 1
          /\ \A i, j \in DOMAIN r : i < j => r[i].createdAt < r[j].createdAt

C2_Witness ==
  /\ last.op = "updateTaskStatus"
  /\ Len(tasks.items) = 2
  /\ Len(GetTasksByStatus(tasks.items, "archived")) = 2

\* C3: a drop of a dragged card on a column whose status is not the task's
\* changes the status of that task to the column's and nothing else: the
\* task's other fields, the other tasks, the length and the order stay.
C3_DropChangesOneStatus ==
  [][(last'.op = "drop" /\ last'.accepted /\ last'.from # ""
        /\ last'.from # last'.status) =>
       /\ tasks'.type = "array"
       /\ Len(tasks'.items) = Len(tasks.items)
       /\ \A i \in DOMAIN tasks.items :
            tasks'.items[i] =
              IF tasks.items[i].id = last'.id
              THEN [tasks.items[i] EXCEPT !.status = last'.status]
              ELSE tasks.items[i]]_vars

C3_Witness ==
  /\ last.op = "drop"
  /\ last.accepted
  /\ last.from = "todo"
  /\ last.status = "inprogress"
  /\ Len(tasks.items) = 2
  /\ StatusOf(tasks, last.id) = "inprogress"
  /\ \E i \in DOMAIN tasks.items : tasks.items[i].status = "done"

\* C4: updateTaskStatus with an id no task has leaves the collection as it
\* is, writes nothing to storage and raises nothing, whatever the status.
C4_UnknownIdNoOp ==
  [][(last'.op = "updateTaskStatus" /\ last'.id \notin Ids(tasks)) =>
       /\ tasks' = tasks
       /\ storage' = storage
       /\ last'.writes = 0
       /\ ~uncaught']_vars

C4_Witness ==
  /\ last.op = "updateTaskStatus"
  /\ last.id \notin Ids(tasks)
  /\ last.writes = 0
  /\ last.status = "archived"
  /\ Len(tasks.items) = 1
  /\ storage # JSONStringify(tasks)

\* C5 as stated: a deleteTask that follows a deleteTask of the same id
\* changes neither the collection nor the stored value.
C5_SecondDeleteNoOp ==
  [][(last'.op = "deleteTask" /\ last'.again) =>
       tasks' = tasks /\ storage' = storage]_vars

\* C5 amended: a deleteTask that follows a deleteTask of the same id leaves
\* the collection as it is; it leaves the stored value as it is when the
\* first call's write was stored, and when the first write failed and the
\* second is stored it brings the stored value up to the collection.
C5_SecondDeleteAmended ==
  [][(last'.op = "deleteTask" /\ last'.again) =>
       /\ tasks' = tasks
       /\ last.wrote = 1 => storage' = storage
       /\ (last.wrote = 0 /\ last'.wrote = 1) => StoredEquals(storage', tasks')
       /\ last'.wrote = 0 => storage' = storage]_vars

C5_Witness ==
  /\ last.op = "deleteTask"
  /\ last.again
  /\ last.wrote = 1
  /\ Len(tasks.items) = 1
  /\ last.id \notin Ids(tasks)
  /\ StoredEquals(storage, tasks)

\* the step appends one task, with this title, to a collection otherwise kept
CreatesOne(title) ==
  /\ Len(tasks'.items) = Len(tasks.items) + 1
  /\ SubSeq(tasks'.items, 1, Len(tasks.items)) = tasks.items
  /\ tasks'.items[Len(tasks'.items)].title = title

C7_StorageFaultsContained ==
  /\ (last.op = "startup" /\ (last.failed = 1 \/ storage.kind = "malformed")) =>
       tasks = JsArray(<<>>) /\ ~uncaught
  /\ (last.writes > last.wrote \/ (last.op = "clearTasks" /\ last.failed = 1)) =>
       ~uncaught

C7_Witness ==
  /\ last.op = "startup"
  /\ last.failed = 1
  /\ storage.kind = "array"
  /\ Len(storage.items) = 1
  /\ tasks = JsArray(<<>>)
  /\ ~uncaught

\* C8: after a startup that found under the key a text that parses to
\* something that is no array, the collection is the empty sequence and
\* neither startup nor any later call ends in an exception.
C8_NonArrayTreatedAsAbsent ==
  /\ (last.op = "startup" /\ last.failed = 0 /\ storage.kind \in NonArrayKinds) =>
       tasks = JsArray(<<>>)
  /\ ~uncaught

C10_DeleteOnlyConfirmed ==
  [][(phase = "running" /\ phase' = "running") =>
       /\ (last'.op = "delete" /\ ~last'.accepted) => tasks' = tasks /\ storage' = storage
       /\ Ids(tasks) \ Ids(tasks') # {} =>
            /\ last'.op = "delete"
            /\ last'.accepted
            /\ Ids(tasks) \ Ids(tasks') = {last'.id}]_vars

C10_Witness ==
  /\ last.op = "delete"
  /\ ~last.accepted
  /\ last.id \in Ids(tasks)
  /\ Len(tasks.items) = 2

\* C11: once a drag gesture has ended, whatever its outcome, draggedElement
\* is null; and a drop that no dragstart on a task card came before finds no
\* task to change, so it writes nothing.
C11_DraggedClearedAfterGesture ==
  /\ (phase = "running" /\ gesture = "none") => draggedElement = NULL
  /\ (last.op = "drop" /\ ~last.accepted) => last.writes = 0

\* C12: whatever came before, the lists keep the one drop listener and the
\* board the one dragstart and dragend listener that startup registered, and
\* a drop event makes at most one storage write.
C12_ListenersDoNotGrow ==
  /\ phase = "running" => dropListeners <= 1 /\ boardListeners <= 1
  /\ last.op = "drop" => last.writes <= 1

\* ids of the tasks a stored text holds
StoredIds(text) ==
  IF text.kind = "array" THEN {text.items[i][1] : i \in DOMAIN text.items} ELSE {}

\* C13: a task that is in the stored value leaves it only in a step that is
\* a confirmed click on that task's delete button: no startup, submit, drop
\* or unload stores a collection without it.
C13_PersistedLeavesOnlyByDelete ==
  [][\A id \in StoredIds(storage) \ StoredIds(storage') :
       last'.op = "delete" /\ last'.accepted /\ last'.id = id]_vars

====
